---- MODULE Spec2Model ----
(***************************************************************************)
(* Model of signal_processing/ecg_spectral.py: spectral_heart_rate and its *)
(* helper _check_feasibility.  One call of spectral_heart_rate is a run of *)
(* the state machine below, one action per statement group of the body.    *)
(*                                                                         *)
(* Numbers.  Frequencies and results are floats in the code.  They are     *)
(* modelled as exact rationals <<n, d>> (d > 0, lowest terms) extended     *)
(* with the two non-finite values numpy produces on a division by zero     *)
(* (nan for 0/0, inf for x/0 with x > 0).  Powers are small naturals.      *)
(* Strings are sequences of one-character strings so that str.lower() is a *)
(* real conversion.  Array indices are 0-based as in the code; position i  *)
(* of an array a is a[i + 1].                                              *)
(***************************************************************************)
EXTENDS Integers, Sequences, FiniteSets, TLC

VARIABLES
    filtered_sig,  \* argument filtered_sig: a matrix, filtered_sig[row][column]
    s_lead_first,  \* s: the signal normalised to lead-first, s[lead][sample]
    sig_fmt,       \* argument sig_fmt (characters)
    hr_fs_band,    \* argument hr_fs_band: [none |-> BOOLEAN, b |-> sequence of rationals]
    mode,          \* argument mode (characters)
    pc,            \* position in the body of spectral_heart_rate
    freqs,         \* frequency axis returned by SS.welch
    psd,           \* per-lead power returned by SS.welch, psd[l][i + 1]
    feasible,      \* what _check_feasibility did: "unset", "true", "false", "IndexError"
    fs_band,       \* the sorted, two-element band
    inds_of_interest,
    freqs_of_interest,
    psd_of_interest,
    peak_inds,
    psd_mask,
    ret_val,       \* float: the frequency estimate, then the converted value
    err,           \* exception that left the call, "none" while there is none
    trace          \* statement groups executed so far, in order

\* LUDB.load_ann of unet/data_reader.py, the annotation of one lead
VARIABLES
    symbols,        \* ann.symbol, one character per marker
    ann_sample,     \* ann.sample, the sample index of each marker
    ann_peak_inds,  \* peak_inds: 0-based positions of the markers p, N, t
    df_i,           \* number of rows of df_lead_ann the pairing loop has done
    df_onset,       \* column onset of the rows done (nan in the others)
    df_offset,      \* column offset of the rows done (nan in the others)
    ann_reads,      \* positions of symbols / ann.sample the pairing loop indexed
    waves,          \* ann_dict['waves'][l]
    ann_err,        \* exception that left load_ann, "none" while there is none
    ann_pc          \* position in the body of the loop over the leads

ann_vars == <<symbols, ann_sample, ann_peak_inds, df_i, df_onset, df_offset,
              ann_reads, waves, ann_err, ann_pc>>

vars == <<ann_vars,
          filtered_sig, s_lead_first, sig_fmt, hr_fs_band, mode, pc, freqs, psd, feasible, fs_band,
          inds_of_interest, freqs_of_interest, psd_of_interest, peak_inds,
          psd_mask, ret_val, err, trace>>

----------------------------------------------------------------------------
(* Bounds of the model *)

\* longest frequency axis SS.welch returns here (number of bins)
MaxBins == 3

\* largest power value of a bin
MaxPow == 2

\* largest power value of a bin in the specification that varies the arguments
MaxPowArgs == 1

\* longest supplied band collection
MaxBandLen == 3

\* numbers of leads of the signal
LeadCounts == {1, 2}

----------------------------------------------------------------------------
(* Exact rationals *)

RECURSIVE Gcd(_, _)
Gcd(a, b) == IF b = 0 THEN a ELSE Gcd(b, a % b)

Abs(x) == IF x < 0 THEN -x ELSE x

\* the rational n/d in lowest terms, d > 0 required
Rat(n, d) ==
    LET g == Gcd(Abs(n), d) IN <<n \div g, d \div g>>

RLe(a, b) == a[1] * b[2] <= b[1] * a[2]
RLt(a, b) == a[1] * b[2] < b[1] * a[2]
RAdd(a, b) == Rat(a[1] * b[2] + b[1] * a[2], a[2] * b[2])
RMul(a, b) == Rat(a[1] * b[1], a[2] * b[2])
RZero == <<0, 1>>

(* Floats: a rational, nan or +inf *)
Num(r) == [k |-> "num", v |-> r]
NaN == [k |-> "nan", v |-> RZero]
Inf == [k |-> "inf", v |-> RZero]

\* float division a / b of two finite values, as numpy divides float64:
\* 0/0 is nan and x/0 is inf for x > 0 (a warning, no exception)
FDivNum(a, b) ==
    IF b[1] = 0
    THEN IF a[1] = 0 THEN NaN ELSE Inf
    ELSE IF b[1] > 0 THEN Num(Rat(a[1] * b[2], a[2] * b[1]))
         ELSE Num(Rat(-(a[1] * b[2]), a[2] * (-b[1])))

FAdd(x, y) ==
    IF x.k = "nan" \/ y.k = "nan" THEN NaN
    ELSE IF x.k = "inf" \/ y.k = "inf" THEN Inf
    ELSE Num(RAdd(x.v, y.v))

\* x / c for a finite c > 0
FDivPos(x, c) ==
    IF x.k = "num" THEN Num(RMul(x.v, Rat(1, c))) ELSE x

\* c * x for a finite c > 0
FMulPos(c, x) ==
    IF x.k = "num" THEN Num(RMul(Rat(c, 1), x.v)) ELSE x

\* c / x for a finite c > 0 and x >= 0
FRecip(c, x) ==
    IF x.k = "nan" THEN NaN
    ELSE IF x.k = "inf" THEN Num(RZero)
    ELSE FDivNum(Rat(c, 1), x.v)

----------------------------------------------------------------------------
(* Strings *)

UpperAlpha == <<"A","B","C","D","E","F","G","H","I","J","K","L","M",
                "N","O","P","Q","R","S","T","U","V","W","X","Y","Z">>
LowerAlpha == <<"a","b","c","d","e","f","g","h","i","j","k","l","m",
                "n","o","p","q","r","s","t","u","v","w","x","y","z">>

LowerChar(c) ==
    IF \E i \in DOMAIN UpperAlpha : UpperAlpha[i] = c
    THEN LowerAlpha[CHOOSE i \in DOMAIN UpperAlpha : UpperAlpha[i] = c]
    ELSE c

\* str.lower()
Lower(s) == [i \in DOMAIN s |-> LowerChar(s[i])]

channel_first == <<"c","h","a","n","n","e","l","_","f","i","r","s","t">>
lead_first    == <<"l","e","a","d","_","f","i","r","s","t">>
channel_last  == <<"c","h","a","n","n","e","l","_","l","a","s","t">>
lead_last     == <<"l","e","a","d","_","l","a","s","t">>

hr          == <<"h","r">>
heart_rate  == <<"h","e","a","r","t","_","r","a","t","e">>
rr          == <<"r","r">>
rr_interval == <<"r","r","_","i","n","t","e","r","v","a","l">>

----------------------------------------------------------------------------
(* Sequence helpers *)

RECURSIVE SumSeq(_)
SumSeq(s) == IF Len(s) = 0 THEN 0 ELSE s[1] + SumSeq(Tail(s))

\* insert the rational x into the ascending sequence s
RECURSIVE Insert(_, _)
Insert(x, s) ==
    IF Len(s) = 0 THEN <<x>>
    ELSE IF RLe(x, s[1]) THEN <<x>> \o s
    ELSE <<s[1]>> \o Insert(x, Tail(s))

\* sorted(...) / np.sort(...) on rationals
RECURSIVE Sorted(_)
Sorted(s) == IF Len(s) = 0 THEN <<>> ELSE Insert(s[1], Sorted(Tail(s)))

----------------------------------------------------------------------------
(* _check_feasibility *)

LowFreq == <<50, 60>>
HighFreq == <<100, 60>>

\* _f = np.sort(_f[_f>0])
PositiveSorted(f) == Sorted(SelectSeq(f, LAMBDA x : x[1] > 0))

\* "true" / "false": the value returned; "IndexError": _f[0] on an empty _f
check_feasibility(f) ==
    LET _f == PositiveSorted(f) IN
    IF Len(_f) = 0 THEN "IndexError"
    ELSE IF RLe(_f[1], LowFreq) /\ RLe(HighFreq, _f[Len(_f)]) THEN "true"
    ELSE "false"

----------------------------------------------------------------------------
(* the steps of spectral_heart_rate as functions of what they read *)

LayoutTags == {channel_first, lead_first, channel_last, lead_last}

\* the assert of the first line
LayoutOk(fmt) == Lower(fmt) \in LayoutTags

\* a.T of a matrix with at least one row and one column
Transpose(a) == [j \in 1..Len(a[1]) |-> [i \in 1..Len(a) |-> a[i][j]]]

\* a slip of the test: sig_fmt compared without lower()
NormaliseLayout_cased(fmt, sig) ==
    IF fmt \in {channel_last, lead_last} THEN Transpose(sig) ELSE sig

\* s = filtered_sig.T for the lead-last tags, filtered_sig.copy() otherwise
NormaliseLayout(fmt, sig) ==
    IF Lower(fmt) \in {channel_last, lead_last} THEN Transpose(sig) ELSE sig

\* FeatureCfg.spectral_hr_fs_band
DefaultBand == << <<1, 2>>, <<4, 1>> >>

\* hr_fs_band or FeatureCfg.spectral_hr_fs_band: None and () are both falsy
BandOrDefault(h) == IF h.none \/ Len(h.b) = 0 THEN DefaultBand ELSE h.b

\* the assert on the number of bounds
BandOk(b) == Len(b) >= 2

\* a slip of the last line: fs_band[1] for fs_band[-1]
SortedBand_second(b) ==
    LET s == Sorted(b) IN <<s[1], s[2]>>

\* fs_band = sorted(fs_band); fs_band = [fs_band[0], fs_band[-1]]
SortedBand(b) ==
    LET s == Sorted(b) IN <<s[1], s[Len(s)]>>

\* (fs_band[0] <= x) & (x <= fs_band[-1])
InBand(band, x) == RLe(band[1], x) /\ RLe(x, band[Len(band)])

\* the 0-based indices i, i+1, ... of f whose frequency is in the band, ascending
RECURSIVE IndsFrom(_, _, _)
IndsFrom(band, f, i) ==
    IF i >= Len(f) THEN <<>>
    ELSE (IF InBand(band, f[i + 1]) THEN <<i>> ELSE <<>>) \o IndsFrom(band, f, i + 1)

\* np.where((fs_band[0] <= freqs) & (freqs <= fs_band[-1]))[0], 0-based
IndsOfInterest(band, f) == IndsFrom(band, f, 0)

\* a[inds] along the last axis
TakeInds(a, inds) == [k \in DOMAIN inds |-> a[inds[k] + 1]]

\* the scan of np.argmax over one row: best is the 0-based index of the largest
\* value seen so far, replaced only by a strictly larger one
RECURSIVE ArgmaxScan(_, _, _)
ArgmaxScan(row, k, best) ==
    IF k > Len(row) THEN best
    ELSE ArgmaxScan(row, k + 1, IF row[k] > row[best + 1] THEN k - 1 ELSE best)

RECURSIVE ArgmaxScanLast(_, _, _)
ArgmaxScanLast(row, k, best) ==
    IF k > Len(row) THEN best
    ELSE ArgmaxScanLast(row, k + 1, IF row[k] >= row[best + 1] THEN k - 1 ELSE best)

\* an argmax that keeps the last maximum
ArgmaxRow_last(row) == ArgmaxScanLast(row, 2, 0)

\* np.argmax of one non-empty row
ArgmaxRow(row) == ArgmaxScan(row, 2, 0)

n_nbh == 1

Max2(a, b) == IF a >= b THEN a ELSE b
Min2(a, b) == IF a <= b THEN a ELSE b

\* psd_mask[l, max(0,p-n_nbh):min(m,p+n_nbh)] = 1 on a row of zeros of length m
MaskRow(m, p) ==
    [k \in 1..m |->
        IF Max2(0, p - n_nbh) <= k - 1 /\ k - 1 < Min2(m, p + n_nbh) THEN 1 ELSE 0]

\* psd_of_interest * psd_mask, one row
TimesRow(row, mask) == [k \in DOMAIN row |-> row[k] * mask[k]]

\* np.dot(row, freqs_of_interest)
RECURSIVE DotFrom(_, _, _)
DotFrom(row, f, k) ==
    IF k > Len(row) THEN RZero
    ELSE RAdd(RMul(Rat(row[k], 1), f[k]), DotFrom(row, f, k + 1))

\* np.dot(row, f) / np.sum(row)
CentroidRow(row, f) == FDivNum(DotFrom(row, f, 1), Rat(SumSeq(row), 1))

RECURSIVE FSumFrom(_, _)
FSumFrom(xs, k) ==
    IF k > Len(xs) THEN Num(RZero) ELSE FAdd(xs[k], FSumFrom(xs, k + 1))

\* np.sum for np.mean
MeanLeads_sum(xs) == FSumFrom(xs, 1)

\* np.mean over the leads
MeanLeads(xs) == FDivPos(FSumFrom(xs, 1), Len(xs))

\* np.mean(np.dot(psd_of_interest, freqs_of_interest) / np.sum(psd_of_interest, axis=-1))
Centroid(p, f) == MeanLeads([l \in DOMAIN p |-> CentroidRow(p[l], f)])

BpmPerHz == 60
MsPerSec == 1000

\* the final if / elif on mode.lower(); no else branch
Convert(md, v) ==
    IF Lower(md) \in {hr, heart_rate} THEN FMulPos(BpmPerHz, v)
    ELSE IF Lower(md) \in {rr, rr_interval} THEN FRecip(MsPerSec, v)
    ELSE v

----------------------------------------------------------------------------
(* Inputs *)

\* bin widths fs / nperseg of the axes SS.welch returns (Hz)
BinWidths == {<<5, 6>>, <<1, 1>>}

\* np.fft.rfftfreq: n bins k * df, k = 0 .. n-1
Axis(df, n) == [k \in 1..n |-> Rat((k - 1) * df[1], df[2])]

Axes == {Axis(df, n) : df \in BinWidths, n \in 0..MaxBins}

\* the values (Hz) band bounds are drawn from
BandVals == {<<0, 1>>, <<1, 1>>, <<5, 1>>}

NoBand == [none |-> TRUE, b |-> <<>>]
Band(s) == [none |-> FALSE, b |-> s]

BandSeqs == UNION {[1..k -> BandVals] : k \in 0..MaxBandLen}

Hr_upper == <<"H","R">>
Heart_Rate_mixed == <<"H","e","a","r","t","_","R","a","t","e">>
RR_upper == <<"R","R">>
RR_INTERVAL_upper == <<"R","R","_","I","N","T","E","R","V","A","L">>
bpm == <<"b","p","m">>
Lead_Last_mixed == <<"L","e","a","d","_","L","a","s","t">>
channels_first == <<"c","h","a","n","n","e","l","s","_","f","i","r","s","t">>

\* largest number of rows and of columns of a signal whose layout is varied
MaxDim == 2

\* the r x c signal whose sample at row i, column j is 10 * i + j: all samples
\* differ, so a transposition shows
SignalOf(r, c) == [i \in 1..r |-> [j \in 1..c |-> 10 * i + j]]

CHANNEL_LAST_upper == <<"C","H","A","N","N","E","L","_","L","A","S","T">>

\* inputs of the specification that varies the layout
SignalsLayout == {SignalOf(r, c) : r \in 1..MaxDim, c \in 1..MaxDim}
FmtsLayout == {lead_first, channel_last, lead_last,
               Lead_Last_mixed, CHANNEL_LAST_upper, channels_first}
AxesLayout == {Axis(<<5, 6>>, 3)}

\* inputs of the specification that varies the spectrum
SignalsSpec == {SignalOf(c, 1) : c \in LeadCounts}
FmtsSpec == {channel_first, channels_first}
BandsSpec == {NoBand, Band(<< <<0, 1>>, <<5, 1>> >>)}
ModesSpec == {hr, RR_upper}

\* inputs of the specification that varies the arguments
SignalsArgs == {SignalOf(1, 1)}
FmtsArgs == {Lead_Last_mixed, channels_first}
BandsArgs == {NoBand} \cup {Band(s) : s \in BandSeqs}
ModesArgs == {hr, Heart_Rate_mixed, rr, RR_INTERVAL_upper, bpm}

----------------------------------------------------------------------------
(* LUDB.load_ann: the body of the loop over the leads, for one lead *)

\* longest annotation of a lead (number of markers)
MaxAnn == 4

\* largest sample index of a marker
MaxSample == 2

\* self._all_symbols
AllSymbols == {"(", ")", "N", "p", "t"}

PeakSymbols == {"p", "N", "t"}

\* self._symbol_to_wavename
symbol_to_wavename(c) ==
    IF c = "N" THEN "qrs" ELSE IF c = "p" THEN "pwave" ELSE "twave"

freq == 500

\* self.spacing = 1000 / self.freq
spacing == 1000 \div freq

\* the annotations wfdb.rdann can return: ann.sample is non-decreasing
Annotations ==
    UNION {[sym : [1..n -> AllSymbols],
            smp : {f \in [1..n -> 0..MaxSample] :
                      \A k \in 1..(n - 1) : f[k] <= f[k + 1]}] : n \in 0..MaxAnn}

\* np.where(np.isin(symbols, ['p', 'N', 't']))[0], from position k on, 0-based
RECURSIVE PeakIndsFrom(_, _)
PeakIndsFrom(sym, k) ==
    IF k >= Len(sym) THEN <<>>
    ELSE (IF sym[k + 1] \in PeakSymbols THEN <<k>> ELSE <<>>) \o PeakIndsFrom(sym, k + 1)

\* a read of position k of an array of length n
InRange(k, n) == 0 <= k /\ k < n

\* one pass of the pairing loop for the peak at position peak_idx: the values
\* stored in onset and offset, the positions indexed, and whether an index was
\* out of range (IndexError)
PairRow(sym, smp, peak_idx) ==
    LET n == Len(sym)
        peak == smp[peak_idx + 1]
        before == peak_idx - 1
        after == peak_idx + 1
    IN
    IF peak_idx = 0
    THEN IF ~InRange(after, n)
         THEN [onset |-> peak, offset |-> peak, reads |-> {after}, raised |-> TRUE]
         ELSE [onset |-> peak,
               offset |-> IF sym[after + 1] = ")" THEN smp[after + 1] ELSE peak,
               reads |-> {after}, raised |-> FALSE]
    ELSE IF peak_idx = n - 1
    THEN [onset |-> IF sym[before + 1] = "(" THEN smp[before + 1] ELSE peak,
          offset |-> peak,
          reads |-> {before}, raised |-> FALSE]
    ELSE [onset |-> IF sym[before + 1] = "(" THEN smp[before + 1] ELSE peak,
          offset |-> IF sym[after + 1] = ")" THEN smp[after + 1] ELSE peak,
          reads |-> {before, after}, raised |-> FALSE]

\* ECGWaveForm
ECGWaveForm(name, onset, offset, peak, duration) ==
    [name |-> name, onset |-> onset, offset |-> offset, peak |-> peak,
     duration |-> duration]

AnnInit ==
    /\ symbols = <<>>
    /\ ann_sample = <<>>
    /\ ann_peak_inds = <<>>
    /\ df_i = 0
    /\ df_onset = <<>>
    /\ df_offset = <<>>
    /\ ann_reads = {}
    /\ waves = <<>>
    /\ ann_err = "none"
    /\ ann_pc = "rdann"

\* ann = wfdb.rdann(...), symbols, peak_inds and the three columns of df_lead_ann
ReadAnn ==
    /\ ann_pc = "rdann"
    /\ \E a \in Annotations :
          /\ symbols' = a.sym
          /\ ann_sample' = a.smp
          /\ ann_peak_inds' = PeakIndsFrom(a.sym, 0)
    /\ ann_pc' = "pair"
    /\ UNCHANGED <<df_i, df_onset, df_offset, ann_reads, waves, ann_err>>

\* one iteration of for i, row in df_lead_ann.iterrows()
PairNext ==
    /\ ann_pc = "pair"
    /\ df_i < Len(ann_peak_inds)
    /\ LET r == PairRow(symbols, ann_sample, ann_peak_inds[df_i + 1]) IN
          /\ ann_reads' = ann_reads \cup r.reads
          /\ IF r.raised
             THEN /\ ann_err' = "IndexError"
                  /\ ann_pc' = "raised"
                  /\ UNCHANGED <<df_i, df_onset, df_offset>>
             ELSE /\ df_onset' = Append(df_onset, r.onset)
                  /\ df_offset' = Append(df_offset, r.offset)
                  /\ df_i' = df_i + 1
                  /\ UNCHANGED <<ann_err, ann_pc>>
    /\ UNCHANGED <<symbols, ann_sample, ann_peak_inds, waves>>

\* after the loop: the column duration, the index of symbols, the conversion to
\* int and one ECGWaveForm per row appended to the lead's list
BuildWaves ==
    /\ ann_pc = "pair"
    /\ df_i = Len(ann_peak_inds)
    /\ waves' = [k \in 1..Len(ann_peak_inds) |->
                    ECGWaveForm(symbol_to_wavename(symbols[ann_peak_inds[k] + 1]),
                                df_onset[k], df_offset[k],
                                ann_sample[ann_peak_inds[k] + 1],
                                (df_offset[k] - df_onset[k]) * spacing)]
    /\ ann_pc' = "done"
    /\ UNCHANGED <<symbols, ann_sample, ann_peak_inds, df_i, df_onset, df_offset,
                   ann_reads, ann_err>>

spectral_vars == <<filtered_sig, s_lead_first, sig_fmt, hr_fs_band, mode, pc, freqs,
                   psd, feasible, fs_band, inds_of_interest, freqs_of_interest,
                   psd_of_interest, peak_inds, psd_mask, ret_val, err, trace>>

----------------------------------------------------------------------------
(* The call *)

InitWith(Sigs, Fmts, Bands, Modes) ==
    /\ filtered_sig \in Sigs
    /\ s_lead_first = <<>>
    /\ sig_fmt \in Fmts
    /\ hr_fs_band \in Bands
    /\ mode \in Modes
    /\ pc = "entry"
    /\ freqs = <<>>
    /\ psd = <<>>
    /\ feasible = "unset"
    /\ fs_band = <<>>
    /\ inds_of_interest = <<>>
    /\ freqs_of_interest = <<>>
    /\ psd_of_interest = <<>>
    /\ peak_inds = <<>>
    /\ psd_mask = <<>>
    /\ ret_val = NaN
    /\ err = "none"
    /\ trace = <<>>
    /\ AnnInit

args == <<filtered_sig, sig_fmt, hr_fs_band, mode>>

Raise(e, step) ==
    /\ err' = e
    /\ pc' = "raised"
    /\ trace' = Append(trace, step)

\* the assert on sig_fmt and the normalisation to lead-first
CheckLayout ==
    /\ pc = "entry"
    /\ IF LayoutOk(sig_fmt)
       THEN /\ s_lead_first' = NormaliseLayout(sig_fmt, filtered_sig)
            /\ pc' = "welch"
            /\ trace' = Append(trace, "layout")
            /\ err' = err
       ELSE /\ s_lead_first' = s_lead_first
            /\ Raise("AssertionError", "layout")
    /\ UNCHANGED <<ann_vars, args, freqs, psd, feasible, fs_band, inds_of_interest,
                   freqs_of_interest, psd_of_interest, peak_inds, psd_mask, ret_val>>

\* freqs, psd = SS.welch(s, fs, axis=-1).  The estimator is opaque: it returns
\* one of the axes and, for every lead of s, any non-negative power at each bin.
Welch(AxisSet, Pow) ==
    /\ pc = "welch"
    /\ \E ax \in AxisSet :
         \E p \in [1..Len(s_lead_first) -> [1..Len(ax) -> 0..Pow]] :
            /\ freqs' = ax
            /\ psd' = p
    /\ pc' = "feasibility"
    /\ trace' = Append(trace, "welch")
    /\ UNCHANGED <<ann_vars, args, s_lead_first, feasible, fs_band, inds_of_interest, freqs_of_interest,
                   psd_of_interest, peak_inds, psd_mask, ret_val, err>>

\* if not _check_feasibility(freqs): raise ValueError(...)
CheckFeasibility ==
    /\ pc = "feasibility"
    /\ feasible' = check_feasibility(freqs)
    /\ IF feasible' = "IndexError" THEN Raise("IndexError", "feasibility")
       ELSE IF feasible' = "false" THEN Raise("ValueError", "feasibility")
       ELSE /\ pc' = "band"
            /\ trace' = Append(trace, "feasibility")
            /\ err' = err
    /\ UNCHANGED <<ann_vars, args, s_lead_first, freqs, psd, fs_band, inds_of_interest, freqs_of_interest,
                   psd_of_interest, peak_inds, psd_mask, ret_val>>

\* the default, the assert on the number of bounds, the sort
ResolveBand ==
    /\ pc = "band"
    /\ LET b == BandOrDefault(hr_fs_band) IN
       IF BandOk(b)
       THEN /\ fs_band' = SortedBand(b)
            /\ pc' = "restrict"
            /\ trace' = Append(trace, "band")
            /\ err' = err
       ELSE /\ fs_band' = b
            /\ Raise("AssertionError", "band")
    /\ UNCHANGED <<ann_vars, args, s_lead_first, freqs, psd, feasible, inds_of_interest, freqs_of_interest,
                   psd_of_interest, peak_inds, psd_mask, ret_val>>

\* inds_of_interest, freqs_of_interest, psd_of_interest
Restrict ==
    /\ pc = "restrict"
    /\ inds_of_interest' = IndsOfInterest(fs_band, freqs)
    /\ freqs_of_interest' = TakeInds(freqs, inds_of_interest')
    /\ psd_of_interest' = [l \in DOMAIN psd |-> TakeInds(psd[l], inds_of_interest')]
    /\ pc' = "argmax"
    /\ trace' = Append(trace, "restrict")
    /\ UNCHANGED <<ann_vars, args, s_lead_first, freqs, psd, feasible, fs_band, peak_inds, psd_mask,
                   ret_val, err>>

\* peak_inds = np.argmax(psd_of_interest, axis=-1): ValueError on an empty axis
PeakSearch ==
    /\ pc = "argmax"
    /\ IF Len(freqs_of_interest) = 0
       THEN /\ Raise("ValueError", "argmax")
            /\ peak_inds' = peak_inds
       ELSE /\ peak_inds' = [l \in DOMAIN psd_of_interest |-> ArgmaxRow(psd_of_interest[l])]
            /\ pc' = "mask"
            /\ trace' = Append(trace, "argmax")
            /\ err' = err
    /\ UNCHANGED <<ann_vars, args, s_lead_first, freqs, psd, feasible, fs_band, inds_of_interest,
                   freqs_of_interest, psd_of_interest, psd_mask, ret_val>>

\* the loop over the leads that sets psd_mask, and psd_of_interest * psd_mask
BuildMask ==
    /\ pc = "mask"
    /\ psd_mask' = [l \in DOMAIN psd_of_interest |->
                       MaskRow(Len(freqs_of_interest), peak_inds[l])]
    /\ psd_of_interest' = [l \in DOMAIN psd_of_interest |->
                              TimesRow(psd_of_interest[l], psd_mask'[l])]
    /\ pc' = "centroid"
    /\ trace' = Append(trace, "mask")
    /\ UNCHANGED <<ann_vars, args, s_lead_first, freqs, psd, feasible, fs_band, inds_of_interest,
                   freqs_of_interest, peak_inds, ret_val, err>>

\* ret_val = np.mean(np.dot(...) / np.sum(...))
ComputeCentroid ==
    /\ pc = "centroid"
    /\ ret_val' = Centroid(psd_of_interest, freqs_of_interest)
    /\ pc' = "convert"
    /\ trace' = Append(trace, "centroid")
    /\ UNCHANGED <<ann_vars, args, s_lead_first, freqs, psd, feasible, fs_band, inds_of_interest,
                   freqs_of_interest, psd_of_interest, peak_inds, psd_mask, err>>

\* the conversion on mode and the return
ConvertReturn ==
    /\ pc = "convert"
    /\ ret_val' = Convert(mode, ret_val)
    /\ pc' = "done"
    /\ trace' = Append(trace, "convert")
    /\ UNCHANGED <<ann_vars, args, s_lead_first, freqs, psd, feasible, fs_band, inds_of_interest,
                   freqs_of_interest, psd_of_interest, peak_inds, psd_mask, err>>

Init == InitWith(SignalsSpec, FmtsSpec, BandsSpec, ModesSpec)

Next ==
    \/ CheckLayout
    \/ Welch(Axes, MaxPow)
    \/ CheckFeasibility
    \/ ResolveBand
    \/ Restrict
    \/ PeakSearch
    \/ BuildMask
    \/ ComputeCentroid
    \/ ConvertReturn

Spec == Init /\ [][Next]_vars

InitArgs == InitWith(SignalsArgs, FmtsArgs, BandsArgs, ModesArgs)

NextArgs ==
    \/ CheckLayout
    \/ Welch(Axes, MaxPowArgs)
    \/ CheckFeasibility
    \/ ResolveBand
    \/ Restrict
    \/ PeakSearch
    \/ BuildMask
    \/ ComputeCentroid
    \/ ConvertReturn

SpecArgs == InitArgs /\ [][NextArgs]_vars

InitLayout == InitWith(SignalsLayout, FmtsLayout, {NoBand}, {hr})

\* the layout does not reach the spectrum: one axis, powers 0 and 1
NextLayout ==
    \/ CheckLayout
    \/ Welch(AxesLayout, 1)
    \/ CheckFeasibility
    \/ ResolveBand
    \/ Restrict
    \/ PeakSearch
    \/ BuildMask
    \/ ComputeCentroid
    \/ ConvertReturn

SpecLayout == InitLayout /\ [][NextLayout]_vars

\* load_ann on one lead; no call of spectral_heart_rate is running
InitAnn == InitWith(SignalsArgs, {channel_first}, {NoBand}, {hr})

NextAnn ==
    \/ ReadAnn /\ UNCHANGED spectral_vars
    \/ PairNext /\ UNCHANGED spectral_vars
    \/ BuildWaves /\ UNCHANGED spectral_vars

SpecAnn == InitAnn /\ [][NextAnn]_vars

----------------------------------------------------------------------------
(* The whole call as a function of its arguments and of what SS.welch returns *)

Failed(e, step) == [err |-> e, at |-> step, val |-> NaN]

Outcome(fmt, h, md, fr, ps) ==
    IF ~LayoutOk(fmt) THEN Failed("AssertionError", "layout")
    ELSE IF check_feasibility(fr) = "IndexError" THEN Failed("IndexError", "feasibility")
    ELSE IF check_feasibility(fr) = "false" THEN Failed("ValueError", "feasibility")
    ELSE IF ~BandOk(BandOrDefault(h)) THEN Failed("AssertionError", "band")
    ELSE
      LET band == SortedBand(BandOrDefault(h))
          inds == IndsOfInterest(band, fr)
          f == TakeInds(fr, inds)
          p == [l \in DOMAIN ps |-> TakeInds(ps[l], inds)]
      IN IF Len(f) = 0 THEN Failed("ValueError", "argmax")
         ELSE
           LET masked == [l \in DOMAIN p |->
                             TimesRow(p[l], MaskRow(Len(f), ArgmaxRow(p[l])))]
           IN [err |-> "none", at |-> "convert", val |-> Convert(md, Centroid(masked, f))]

Finished == pc \in {"done", "raised"}
Returned == pc = "done"
Executed(step) == \E k \in DOMAIN trace : trace[k] = step
LastStep == trace[Len(trace)]

\* what the finished call did
Result == [err |-> err, at |-> LastStep, val |-> ret_val]

\* the run of the actions and the function agree
RunIsOutcome == Finished => Result = Outcome(sig_fmt, hr_fs_band, mode, freqs, psd)

----------------------------------------------------------------------------
(* Properties *)

NumBand == Len(freqs_of_interest)
Leads == DOMAIN psd_of_interest
Masked == pc \in {"centroid", "convert", "done"}

\* the 0-based indices a lead's mask leaves as they are
Unmasked(l) == {i \in 0..(NumBand - 1) : psd_mask[l][i + 1] = 1}

\* the neighbourhood of radius 1 around p clipped to 0 .. m-1
Neighbourhood(m, p) == {i \in 0..(m - 1) : p - 1 <= i /\ i <= p + 1}

\* C1: once the mask is built, every lead's unmasked indices are exactly the
\* indices within one bin of its peak, clipped to the band-of-interest, and all
\* power outside them is zero.
C1_SymmetricMask ==
    Masked =>
        \A l \in Leads :
            /\ Unmasked(l) = Neighbourhood(NumBand, peak_inds[l])
            /\ \A i \in 0..(NumBand - 1) :
                  i \notin Neighbourhood(NumBand, peak_inds[l])
                      => psd_of_interest[l][i + 1] = 0

Range(s) == {s[k] : k \in DOMAIN s}
PositiveFreqs(f) == {x \in Range(f) : x[1] > 0}
RMinOf(S) == CHOOSE x \in S : \A y \in S : RLe(x, y)
RMaxOf(S) == CHOOSE x \in S : \A y \in S : RLe(y, x)

\* the spec's feasibility of an axis
FeasibleAxis(f) ==
    /\ PositiveFreqs(f) # {}
    /\ RLe(RMinOf(PositiveFreqs(f)), <<50, 60>>)
    /\ RLe(<<100, 60>>, RMaxOf(Range(f)))

\* C2: whenever the feasibility checker has run on an axis, it has reported
\* feasible if the smallest positive frequency is <= 50/60 Hz and the largest
\* frequency is >= 100/60 Hz, and infeasible in every other case.
C2_FeasibilityReported ==
    feasible # "unset" =>
        feasible = (IF FeasibleAxis(freqs) THEN "true" ELSE "false")

\* C3: a finished call whose PSD axis is infeasible has aborted with the
\* spectral-resolution error (the ValueError of the feasibility check), raised
\* right after the PSD and before any later step.
C3_InfeasibleAborts ==
    (Finished /\ Executed("welch") /\ ~FeasibleAxis(freqs)) =>
        /\ pc = "raised"
        /\ err = "ValueError"
        /\ trace = <<"layout", "welch", "feasibility">>

\* C4: a call in which the masked power of some lead sums to zero never returns
\* a value: it ends with an error.
C4_DegenerateFails ==
    (Finished /\ Executed("mask") /\ \E l \in Leads : SumSeq(psd_of_interest[l]) = 0) =>
        pc = "raised"

\* C5: a call on a feasible axis whose band contains no bin fails at the
\* restriction step: it returns no value and never runs the peak search.
C5_EmptyBandFails ==
    (Finished /\ Executed("restrict") /\ Len(inds_of_interest) = 0) =>
        /\ pc = "raised"
        /\ LastStep = "restrict"
        /\ ~Executed("argmax")

ModeNames == {hr, heart_rate, rr, rr_interval}

\* C6: a call whose mode is none of hr, heart_rate, rr, rr_interval (in any
\* letter case) never returns a value; hr and heart_rate give the same result,
\* and so do rr and rr_interval.
C6_UnknownModeRejected ==
    /\ (Finished /\ Lower(mode) \notin ModeNames) => pc = "raised"
    /\ (Finished /\ Lower(mode) \in {hr, heart_rate}) =>
           /\ Result = Outcome(sig_fmt, hr_fs_band, hr, freqs, psd)
           /\ Result = Outcome(sig_fmt, hr_fs_band, heart_rate, freqs, psd)
    /\ (Finished /\ Lower(mode) \in {rr, rr_interval}) =>
           /\ Result = Outcome(sig_fmt, hr_fs_band, rr, freqs, psd)
           /\ Result = Outcome(sig_fmt, hr_fs_band, rr_interval, freqs, psd)

ShortBand == ~hr_fs_band.none /\ Len(hr_fs_band.b) < 2

\* C7: a call that supplies a band of zero or one bounds is rejected with the
\* invalid-argument error before the PSD estimator is invoked.
C7_ShortBandRejectedAtEntry ==
    /\ (ShortBand /\ Executed("welch")) => FALSE
    /\ (ShortBand /\ Finished) => (pc = "raised" /\ err = "AssertionError")

\* C8: a finished call that was given a band collection of two or more bounds
\* did exactly what the call with the pair (min of the collection, max of the
\* collection) does on the same PSD: same error at the same step, or same value.
C8_BandMinMax ==
    (Finished /\ ~hr_fs_band.none /\ Len(hr_fs_band.b) >= 2) =>
        Result = Outcome(sig_fmt,
                         Band(<<RMinOf(Range(hr_fs_band.b)), RMaxOf(Range(hr_fs_band.b))>>),
                         mode, freqs, psd)

\* a returned call whose band was given as (max, min, intermediate), where the
\* pair of the first two bounds in the other order cuts a different band
C8_Witness ==
    /\ Returned
    /\ ~hr_fs_band.none
    /\ Len(hr_fs_band.b) = 3
    /\ RLt(hr_fs_band.b[2], hr_fs_band.b[3])
    /\ RLt(hr_fs_band.b[3], hr_fs_band.b[1])
    /\ ret_val.k = "num"
    /\ Result # Outcome(sig_fmt, Band(<<hr_fs_band.b[2], hr_fs_band.b[3]>>),
                        mode, freqs, psd)

\* C9: after the peak search every lead's peak index is the lowest index of the
\* band-of-interest that holds the lead's maximum power.
C9_FirstMaximum ==
    pc = "mask" =>
        \A l \in Leads :
            LET row == psd_of_interest[l]
                p == peak_inds[l]
            IN /\ p \in 0..(NumBand - 1)
               /\ \A j \in 0..(NumBand - 1) : row[j + 1] <= row[p + 1]
               /\ \A j \in 0..(NumBand - 1) : j < p => row[j + 1] < row[p + 1]

\* a lead whose positive maximum occurs at two bins of the band
C9_Witness ==
    /\ pc = "mask"
    /\ \E l \in Leads :
          \E j \in 0..(NumBand - 1) :
              /\ j > peak_inds[l]
              /\ psd_of_interest[l][j + 1] = psd_of_interest[l][peak_inds[l] + 1]
              /\ psd_of_interest[l][j + 1] > 0

\* sum over the bins I of power * freq, for one lead
RECURSIVE WeightedSum(_, _)
WeightedSum(row, I) ==
    IF I = {} THEN RZero
    ELSE LET i == CHOOSE x \in I : TRUE
         IN RAdd(RMul(<<row[i], 1>>, freqs_of_interest[i]), WeightedSum(row, I \ {i}))

\* sum over the bins I of power, for one lead
RECURSIVE PowerSum(_, _)
PowerSum(row, I) ==
    IF I = {} THEN 0
    ELSE LET i == CHOOSE x \in I : TRUE IN row[i] + PowerSum(row, I \ {i})

Bins == 1..NumBand

\* sum over the leads L of (sum of power * freq) / (sum of power)
RECURSIVE SumCentroids(_)
SumCentroids(L) ==
    IF L = {} THEN RZero
    ELSE LET l == CHOOSE x \in L : TRUE
             row == psd_of_interest[l]
         IN RAdd(RMul(WeightedSum(row, Bins), <<1, PowerSum(row, Bins)>>),
                 SumCentroids(L \ {l}))

\* the arithmetic mean over the leads of the centroid frequencies
MeanCentroid == RMul(SumCentroids(Leads), <<1, Cardinality(Leads)>>)

\* C10: a call that returns in mode heart_rate returns 60 * f and one that
\* returns in mode rr_interval returns 1000 / f, where f is the mean over the
\* leads of (sum of masked power * freq) / (sum of masked power); f is not a
\* number when some lead's masked power sums to zero, and 1000 / 0 is infinity.
C10_ReturnedValue ==
    (Returned /\ Lower(mode) \in ModeNames) =>
        IF \E l \in Leads : PowerSum(psd_of_interest[l], Bins) = 0
        THEN ret_val = NaN
        ELSE IF Lower(mode) \in {hr, heart_rate}
             THEN ret_val = Num(RMul(<<60, 1>>, MeanCentroid))
             ELSE IF MeanCentroid[1] = 0
                  THEN ret_val = Inf
                  ELSE ret_val = Num(Rat(1000 * MeanCentroid[2], MeanCentroid[1]))

\* a returned call on two leads with different peaks, one of them with two
\* unequal non-zero powers under its mask
C10_Witness ==
    /\ Returned
    /\ Cardinality(Leads) = 2
    /\ ret_val.k = "num"
    /\ peak_inds[1] # peak_inds[2]
    /\ \A l \in Leads : PowerSum(psd_of_interest[l], Bins) > 0
    /\ \E l \in Leads : \E i, j \in Bins :
          /\ psd_of_interest[l][i] > 0
          /\ psd_of_interest[l][j] > psd_of_interest[l][i]

\* what the call does in each of the two modes on the same arguments and PSD
InHeartRate == Outcome(sig_fmt, hr_fs_band, heart_rate, freqs, psd)
InRRInterval == Outcome(sig_fmt, hr_fs_band, rr_interval, freqs, psd)

\* C11: on the same signal and band the call fails in mode heart_rate exactly
\* when it fails in mode rr_interval, and when both return, the two values are
\* numbers whose product is 60000.
C11_ModesLinked ==
    (Finished /\ Lower(mode) \in ModeNames) =>
        /\ Result \in {InHeartRate, InRRInterval}
        /\ (InHeartRate.err = "none") <=> (InRRInterval.err = "none")
        /\ (InHeartRate.err = "none" /\ InRRInterval.err = "none") =>
              /\ InHeartRate.val.k = "num"
              /\ InRRInterval.val.k = "num"
              /\ RMul(InHeartRate.val.v, InRRInterval.val.v) = <<60000, 1>>

\* x <= y for a float x and the quotient y = c / d of a finite c > 0 by a finite
\* d >= 0 (infinity when d = 0)
FLeQuot(x, c, d) ==
    IF x.k = "nan" THEN FALSE
    ELSE IF x.k = "inf" THEN d[1] = 0
    ELSE d[1] = 0 \/ RLe(RMul(x.v, d), <<c, 1>>)

\* c / d <= x, likewise
FGeQuot(x, c, d) ==
    IF x.k = "nan" THEN FALSE
    ELSE IF x.k = "inf" THEN TRUE
    ELSE d[1] # 0 /\ RLe(<<c, 1>>, RMul(x.v, d))

\* C13: a value returned in mode heart_rate lies in [60 * band.low, 60 * band.high]
\* and a value returned in mode rr_interval in [1000 / band.high, 1000 / band.low].
C13_ResultInBand ==
    (Returned /\ Lower(mode) \in ModeNames) =>
        IF Lower(mode) \in {hr, heart_rate}
        THEN /\ ret_val.k = "num"
             /\ RLe(RMul(<<60, 1>>, fs_band[1]), ret_val.v)
             /\ RLe(ret_val.v, RMul(<<60, 1>>, fs_band[2]))
        ELSE /\ FGeQuot(ret_val, 1000, fs_band[2])
             /\ FLeQuot(ret_val, 1000, fs_band[1])

KnownTags == {channel_first, lead_first, channel_last, lead_last}
LastTags == {channel_last, lead_last}

\* C12: a call tagged lead-last (in any letter case) computes on the transpose
\* of its signal, which is the array the lead-first call on that transpose
\* computes on, and ends as that call ends on the same PSD; a call whose tag is
\* none of the four names is rejected by the first statement, before anything
\* is computed.
C12_LayoutInvariance ==
    /\ (Executed("layout") /\ Lower(sig_fmt) \in LastTags) =>
           /\ s_lead_first = Transpose(filtered_sig)
           /\ s_lead_first = NormaliseLayout(lead_first, Transpose(filtered_sig))
           /\ s_lead_first = NormaliseLayout(channel_first, Transpose(filtered_sig))
    /\ (Executed("welch") /\ Lower(sig_fmt) \in LastTags) =>
           Len(psd) = Len(filtered_sig[1])
    /\ (Finished /\ Lower(sig_fmt) \in LastTags) =>
           /\ Result = Outcome(lead_first, hr_fs_band, mode, freqs, psd)
           /\ Result = Outcome(channel_first, hr_fs_band, mode, freqs, psd)
    /\ (Executed("layout") /\ Lower(sig_fmt) \notin KnownTags) =>
           /\ pc = "raised"
           /\ err = "AssertionError"
           /\ trace = <<"layout">>
           /\ s_lead_first = <<>>

\* a returned call on a samples x leads signal that is not square, tagged
\* lead-last in mixed case
C12_Witness ==
    /\ Returned
    /\ sig_fmt = Lead_Last_mixed
    /\ Len(filtered_sig) # Len(filtered_sig[1])
    /\ Len(s_lead_first) = Len(filtered_sig[1])
    /\ ret_val.k = "num"

AnnFinished == ann_pc \in {"done", "raised"}

\* the 0-based positions of the peak markers, as a set
PeakPositions == {q \in 0..(Len(symbols) - 1) : symbols[q + 1] \in {"p", "N", "t"}}

\* the k-th smallest element of a finite set of numbers
RECURSIVE KthOf(_, _)
KthOf(S, k) ==
    LET m == CHOOSE x \in S : \A y \in S : x <= y
    IN IF k = 1 THEN m ELSE KthOf(S \ {m}, k - 1)

\* the tuple the claim describes for the peak marker at position q
ExpectedWave(q) ==
    LET peak == ann_sample[q + 1]
        onset == IF q > 0 /\ symbols[q] = "(" THEN ann_sample[q] ELSE peak
        offset == IF q + 1 < Len(symbols) /\ symbols[q + 2] = ")"
                  THEN ann_sample[q + 2] ELSE peak
    IN [name |-> CASE symbols[q + 1] = "p" -> "pwave"
                   [] symbols[q + 1] = "N" -> "qrs"
                   [] symbols[q + 1] = "t" -> "twave",
        onset |-> onset, offset |-> offset, peak |-> peak,
        duration |-> (offset - onset) * 2]

\* C14: for every annotation of a lead, load_ann ends with one tuple per peak
\* marker, in the order of the markers, named after the marker, with the onset
\* of a preceding '(' and the offset of a following ')' (the peak sample
\* otherwise), onset <= peak <= offset and duration = (offset - onset) * 2 >= 0.
C14_OneWavePerPeak ==
    AnnFinished =>
        /\ ann_pc = "done"
        /\ Len(waves) = Cardinality(PeakPositions)
        /\ \A k \in 1..Len(waves) :
              /\ waves[k] = ExpectedWave(KthOf(PeakPositions, k))
              /\ waves[k].onset <= waves[k].peak
              /\ waves[k].peak <= waves[k].offset
              /\ waves[k].duration >= 0

\* C15: the pairing loop indexes symbols and ann.sample only at positions
\* 0 .. len(symbols) - 1.
C15_ReadsInside ==
    \A k \in ann_reads : 0 <= k /\ k < Len(symbols)

====
